---- MODULE Spec2Model ----
(***************************************************************************)
(* Model of python-repl/server.py: one PythonREPLServer whose              *)
(* global_namespace persists across handle_call_tool calls.                *)
(*                                                                         *)
(* Submitted code is a sequence of lines (the text split on '\n'); a line  *)
(* is taken from a small set of Python statements.  The empty sequence is  *)
(* the empty string (or an absent argument); the line Blank is a line of   *)
(* whitespace only.  Package strings are sequences of characters, so that  *)
(* the allow-list pattern is matched character by character.               *)
(***************************************************************************)
EXTENDS Integers, Sequences, FiniteSets, TLC

(* ---------------------------- bounds ----------------------------------- *)
MaxLines == 2      \* lines in one submitted code
MaxInt == 6        \* largest integer a binding may hold
MaxRows == 2       \* rows of a table
MaxItems == 4      \* items of a list held by a binding

(* ---------------------------- values ----------------------------------- *)
\* A Python value: t is the type name; n, s, items, columns, rows carry the
\* payload of the int, the str or module, the list, and the DataFrame.
Val(t, n, s, items, columns, rows) ==
    [t |-> t, n |-> n, s |-> s, items |-> items, columns |-> columns, rows |-> rows]

NoneV == Val("NoneType", 0, "", <<>>, <<>>, <<>>)
IntV(n) == Val("int", n, "", <<>>, <<>>, <<>>)
StrV(s) == Val("str", 0, s, <<>>, <<>>, <<>>)
ListV(items) == Val("list", 0, "", items, <<>>, <<>>)
ModuleV(name) == Val("module", 0, name, <<>>, <<>>, <<>>)
\* pd.DataFrame(rows, columns=columns): rows is a sequence of cell sequences
DataFrameV(columns, rows) == Val("DataFrame", 0, "", <<>>, columns, rows)

\* the values of the two seed bindings
builtins == ModuleV("builtins")
pd == ModuleV("pandas")

(* ------------------------- text conversions ---------------------------- *)
Digits == <<"0", "1", "2", "3", "4", "5", "6", "7", "8", "9">>

RECURSIVE NatStr(_)
NatStr(n) == IF n < 10 THEN Digits[n + 1]
             ELSE NatStr(n \div 10) \o Digits[(n % 10) + 1]

\* repr() of an int
IntRepr(n) == IF n < 0 THEN "-" \o NatStr(0 - n) ELSE NatStr(n)

RECURSIVE JoinInts(_, _)
JoinInts(items, sep) ==
    IF items = <<>> THEN ""
    ELSE IF Len(items) = 1 THEN IntRepr(items[1])
    ELSE IntRepr(items[1]) \o sep \o JoinInts(Tail(items), sep)

RECURSIVE JoinStrs(_, _)
JoinStrs(strs, sep) ==
    IF strs = <<>> THEN ""
    ELSE IF Len(strs) = 1 THEN strs[1]
    ELSE strs[1] \o sep \o JoinStrs(Tail(strs), sep)

RECURSIVE RowsText(_)
RowsText(rows) ==
    IF rows = <<>> THEN ""
    ELSE "\n" \o JoinInts(rows[1], " ") \o RowsText(Tail(rows))

\* repr(): the literal textual representation of a value
repr(v) ==
    CASE v.t = "int" -> IntRepr(v.n)
      [] v.t = "str" -> "'" \o v.s \o "'"
      [] v.t = "NoneType" -> "None"
      [] v.t = "list" -> "[" \o JoinInts(v.items, ", ") \o "]"
      [] v.t = "module" -> "<module '" \o v.s \o "'>"
      [] v.t = "DataFrame" -> JoinStrs(v.columns, " ") \o RowsText(v.rows)

\* str(), as print() applies it: a str is written without quotes
str(v) == IF v.t = "str" THEN v.s ELSE repr(v)

(* ------------------------ the session namespace ------------------------ *)
\* self.global_namespace as constructed, and as re-seeded by a reset
SeedNamespace == [k \in {"__builtins__", "pd"} |->
                    IF k = "pd" THEN pd ELSE builtins]

\* d.clear() on a dict
clear(d) == [k \in {} |-> NoneV]

\* d[k] = v on a dict
Bind(d, k, v) == [n \in DOMAIN d \cup {k} |-> IF n = k THEN v ELSE d[n]]

\* dict.get(k, default)
Get(d, k, default) == IF k \in DOMAIN d THEN d[k] ELSE default

(* --------------------------- submitted code ---------------------------- *)
\* expressions
Lit(v) == [op |-> "lit", id |-> "", v |-> v]              \* 5   [1, 2]
Name(id) == [op |-> "name", id |-> id, v |-> NoneV]        \* x
AddOne(id) == [op |-> "add", id |-> id, v |-> IntV(1)]     \* x + 1
PrintCall(v) == [op |-> "print", id |-> "", v |-> v]           \* print("hi")
StderrWrite(s) == [op |-> "stderr", id |-> "", v |-> StrV(s)]
                                      \* __import__("sys").stderr.write("w")
DataFrameCtor(df) == [op |-> "DataFrame", id |-> "pd", v |-> df]
                                      \* pd.DataFrame(rows, columns=columns)
DivZero == [op |-> "div0", id |-> "", v |-> NoneV]         \* 1/0
AppendOne(id) == [op |-> "append", id |-> id, v |-> IntV(1)]  \* x.append(1)
NoExpr == [op |-> "none", id |-> "", v |-> NoneV]

\* lines
ExprLine(e) == [k |-> "expr", target |-> "", e |-> e, cls |-> ""]
Assign(target, e) == [k |-> "assign", target |-> target, e |-> e, cls |-> ""]
Raise(cls) == [k |-> "raise", target |-> "", e |-> NoExpr, cls |-> cls]
Blank == [k |-> "blank", target |-> "", e |-> NoExpr, cls |-> ""]
BadLine == [k |-> "bad", target |-> "", e |-> NoExpr, cls |-> ""]   \* x +

\* the state of an evaluation: the namespace, the text written to the
\* standard output and error streams, the class of the exception raised
\* ("" when none) and the value obtained
Outcome(ns, out, err, exc, val) ==
    [ns |-> ns, out |-> out, err |-> err, exc |-> exc, val |-> val]

RECURSIVE AddToCells(_, _)
AddToCells(cells, n) ==
    IF cells = <<>> THEN <<>>
    ELSE <<cells[1] + n>> \o AddToCells(Tail(cells), n)

RECURSIVE AddToRows(_, _)
AddToRows(rows, n) ==
    IF rows = <<>> THEN <<>>
    ELSE <<AddToCells(rows[1], n)>> \o AddToRows(Tail(rows), n)

\* the value of an expression in namespace ns, with what it writes
EvalExpr(e, ns) ==
    CASE e.op = "lit" -> Outcome(ns, "", "", "", e.v)
      [] e.op = "name" ->
            IF e.id \in DOMAIN ns THEN Outcome(ns, "", "", "", ns[e.id])
            ELSE Outcome(ns, "", "", "NameError", NoneV)
      [] e.op = "add" ->
            IF e.id \notin DOMAIN ns THEN Outcome(ns, "", "", "NameError", NoneV)
            ELSE IF ns[e.id].t = "int"
                 THEN Outcome(ns, "", "", "", IntV(ns[e.id].n + e.v.n))
            ELSE IF ns[e.id].t = "DataFrame"
                 THEN Outcome(ns, "", "", "",
                        DataFrameV(ns[e.id].columns, AddToRows(ns[e.id].rows, e.v.n)))
            ELSE Outcome(ns, "", "", "TypeError", NoneV)
      [] e.op = "print" -> Outcome(ns, str(e.v) \o "\n", "", "", NoneV)
      [] e.op = "stderr" -> Outcome(ns, "", e.v.s, "", IntV(Len(e.v.s)))
      [] e.op = "DataFrame" ->
            IF e.id \in DOMAIN ns THEN Outcome(ns, "", "", "", e.v)
            ELSE Outcome(ns, "", "", "NameError", NoneV)
      [] e.op = "div0" -> Outcome(ns, "", "", "ZeroDivisionError", NoneV)
      [] e.op = "append" ->
            IF e.id \notin DOMAIN ns THEN Outcome(ns, "", "", "NameError", NoneV)
            ELSE IF ns[e.id].t = "list"
                 THEN Outcome(Bind(ns, e.id, ListV(Append(ns[e.id].items, e.v.n))),
                              "", "", "", NoneV)
            ELSE Outcome(ns, "", "", "AttributeError", NoneV)
      [] OTHER -> Outcome(ns, "", "", "SyntaxError", NoneV)

\* one statement, run after the statements that led to st
RunLine(line, st) ==
    LET r == EvalExpr(line.e, st.ns) IN
    CASE line.k = "blank" -> st
      [] line.k = "raise" -> Outcome(st.ns, st.out, st.err, line.cls, NoneV)
      [] line.k = "expr" ->
            Outcome(r.ns, st.out \o r.out, st.err \o r.err, r.exc, NoneV)
      [] line.k = "assign" ->
            IF r.exc # "" THEN Outcome(r.ns, st.out \o r.out, st.err \o r.err, r.exc, NoneV)
            ELSE Outcome(Bind(r.ns, line.target, r.val),
                         st.out \o r.out, st.err \o r.err, "", NoneV)
      [] OTHER -> Outcome(st.ns, st.out, st.err, "SyntaxError", NoneV)

RECURSIVE RunLines(_, _)
RunLines(lines, st) ==
    IF lines = <<>> \/ st.exc # "" THEN st
    ELSE RunLines(Tail(lines), RunLine(lines[1], st))

\* exec that undoes the bindings of a run that raises
exec_rollback(code, ns) ==
    LET r == RunLines(code, Outcome(ns, "", "", "", NoneV)) IN
    IF \E i \in 1..Len(code) : code[i].k = "bad"
    THEN Outcome(ns, "", "", "SyntaxError", NoneV)
    ELSE IF r.exc # "" THEN [r EXCEPT !.ns = ns] ELSE r

\* exec against a copy of the namespace: the bindings of the run are dropped
exec_on_copy(code, ns) ==
    IF \E i \in 1..Len(code) : code[i].k = "bad"
    THEN Outcome(ns, "", "", "SyntaxError", NoneV)
    ELSE [RunLines(code, Outcome(ns, "", "", "", NoneV)) EXCEPT !.ns = ns]

\* exec(code, ns): the code is compiled whole, then its statements run in
\* order against ns until one raises
exec(code, ns) ==
    IF \E i \in 1..Len(code) : code[i].k = "bad"
    THEN Outcome(ns, "", "", "SyntaxError", NoneV)
    ELSE RunLines(code, Outcome(ns, "", "", "", NoneV))

\* a second evaluation without effects: the value alone is obtained
eval_without_effects(line, ns) ==
    IF line.k = "expr"
    THEN [EvalExpr(line.e, ns) EXCEPT !.ns = ns, !.out = "", !.err = ""]
    ELSE Outcome(ns, "", "", "SyntaxError", NoneV)

\* eval(line, ns): only an expression has a value
eval(line, ns) ==
    IF line.k = "expr" THEN EvalExpr(line.e, ns)
    ELSE Outcome(ns, "", "", "SyntaxError", NoneV)

\* code.strip(): leading and trailing whitespace, blank lines included, goes
RECURSIVE LStrip(_)
LStrip(code) == IF code # <<>> /\ code[1].k = "blank" THEN LStrip(Tail(code))
                ELSE code

RECURSIVE RStrip(_)
RStrip(code) ==
    IF code # <<>> /\ code[Len(code)].k = "blank"
    THEN RStrip(SubSeq(code, 1, Len(code) - 1))
    ELSE code

strip(code) == RStrip(LStrip(code))

\* code.strip().split('\n')[-1]
last_line(code) == LET s == strip(code) IN
                   IF s = <<>> THEN Blank ELSE s[Len(s)]

\* "except Exception": SystemExit, KeyboardInterrupt and GeneratorExit
\* derive from BaseException only
IsException(cls) == cls \notin {"SystemExit", "KeyboardInterrupt", "GeneratorExit"}

(* ------------------------------ inputs --------------------------------- *)
ColumnLists == {<<"a", "b">>, <<"b", "a">>}

\* the table with the given columns and R rows; every cell of row i holds i + 3
MkTable(columns, R) ==
    DataFrameV(columns, [i \in 1..R |-> [j \in 1..Len(columns) |-> i + 3]])

Tables == {MkTable(c, R) : c \in ColumnLists, R \in 0..MaxRows}

Exprs == {Lit(ListV(<<1, 2>>)), Name("x"), AddOne("x"),
          PrintCall(StrV("hi")), StderrWrite("w"), DivZero,
          Name("abc"), AppendOne("x")}
         \cup {DataFrameCtor(t) : t \in Tables}

\* the lines a code may end with
Lines == {ExprLine(e) : e \in Exprs}
         \cup {Assign("x", e) : e \in {Lit(IntV(5)), AddOne("x"),
                                        DataFrameCtor(MkTable(<<"a", "b">>, 2)),
                                        Lit(ListV(<<1, 2>>))}}
         \cup {Assign("_t", Lit(IntV(5)))}
         \cup {Raise("SystemExit"), Blank, BadLine}

\* the lines that may come before the last one
PrefixLines == {Assign("x", Lit(IntV(5))), ExprLine(PrintCall(StrV("hi")))}

\* the non-empty code texts
Codes == {p \o <<l>> : p \in UNION {[1..n -> PrefixLines] : n \in 0..(MaxLines - 1)},
                       l \in Lines}

\* argument mappings of execute_python; <<>> is the empty string.  The reset
\* flag is passed along with the empty code and with two of the codes
Args(keys, code, reset) == [k \in keys |-> IF k = "code" THEN code ELSE reset]

ResetCodes == {<<>>, <<Assign("x", Lit(IntV(5)))>>, <<ExprLine(Name("x"))>>}

ExecuteArguments ==
    {Args({"code"}, code, FALSE) : code \in Codes \cup {<<>>}}
    \cup {Args(keys, code, reset) : keys \in {{}, {"reset"}, {"code", "reset"}},
                                    code \in ResetCodes, reset \in BOOLEAN}

\* every integer and every list held by the namespace is within the bounds
WithinBounds(ns) ==
    \A k \in DOMAIN ns :
        /\ ns[k].n <= MaxInt
        /\ Len(ns[k].items) <= MaxItems
        /\ \A i \in 1..Len(ns[k].rows) :
              \A j \in 1..Len(ns[k].rows[i]) : ns[k].rows[i][j] <= MaxInt

(* ----------------------------- responses ------------------------------- *)
\* nothing returned yet
NoResponse == [kind |-> "none", exc |-> "", json |-> FALSE, text |-> "", doc |-> <<>>]
\* an exception leaves handle_call_tool
Raised(cls, msg) == [kind |-> "raised", exc |-> cls, json |-> FALSE, text |-> msg, doc |-> <<>>]
\* [types.TextContent(type="text", text=text)]
TextContent(text) == [kind |-> "content", exc |-> "", json |-> FALSE, text |-> text, doc |-> <<>>]
\* [types.TextContent(type="text", text=json.dumps(doc))]: the document is
\* kept in place of its encoding
JsonContent(doc) == [kind |-> "content", exc |-> "", json |-> TRUE, text |-> "", doc |-> doc]

\* JSON values of the result key
JsonStr(s) == [structured |-> FALSE, s |-> s, items |-> <<>>]
JsonList(items) == [structured |-> TRUE, s |-> "", items |-> items]

\* traceback.format_exc(), reduced to the class of the exception
format_exc(cls) == "Traceback (most recent call last):\n" \o cls

\* last_value.to_dict(orient="records"): one mapping per row, from column
\* name to the cell of the last column of that name
to_dict_records(df) ==
    [i \in 1..Len(df.rows) |->
        [c \in {df.columns[j] : j \in 1..Len(df.columns)} |->
            df.rows[i][CHOOSE j \in 1..Len(df.columns) :
                          /\ df.columns[j] = c
                          /\ \A m \in 1..Len(df.columns) : df.columns[m] = c => m <= j]]]

\* the dataframe document
df_json(last_value) ==
    [k \in {"type", "data", "columns", "shape"} |->
        CASE k = "type" -> "dataframe"
          [] k = "data" -> to_dict_records(last_value)
          [] k = "columns" -> last_value.columns
          [] k = "shape" -> <<Len(last_value.rows), Len(last_value.columns)>>]

\* a generic document whose result is always the repr
result_doc_repr_only(output, errors, last_value) ==
    [k \in (IF output # "" THEN {"output"} ELSE {})
           \cup (IF errors # "" THEN {"errors"} ELSE {})
           \cup {"result"} |->
        CASE k = "output" -> output
          [] k = "errors" -> errors
          [] k = "result" -> JsonStr(repr(last_value))]

\* the generic document: output and errors when non-empty, then result
result_doc(output, errors, last_value) ==
    [k \in (IF output # "" THEN {"output"} ELSE {})
           \cup (IF errors # "" THEN {"errors"} ELSE {})
           \cup {"result"} |->
        CASE k = "output" -> output
          [] k = "errors" -> errors
          [] k = "result" -> IF last_value.t \in {"list", "dict"}
                             THEN JsonList(last_value.items)
                             ELSE JsonStr(repr(last_value))]

error_doc(msg) == [k \in {"error"} |-> msg]

(* ------------------------------ state ---------------------------------- *)
VARIABLES
    global_namespace,  \* self.global_namespace
    request,           \* the last call: tool name and argument mapping
    response,          \* what the last call returned or raised
    steps,             \* the steps the last call performed, in order
    commands,          \* the external commands the last call ran: argv, outcome
    terminal,          \* what the last call wrote to the real stdout and stderr
    streams            \* where sys.stdout and sys.stderr point after the call

vars == <<global_namespace, request, response, steps, commands, terminal, streams>>

Quiet == [stdout |-> "", stderr |-> ""]

\* sys.stdout and sys.stderr of the process
Original == [stdout |-> "original", stderr |-> "original"]

\* redirect_stdout(stdout), redirect_stderr(stderr) entered: both channels
\* point to the call's buffers
redirect_enter(current) == [stdout |-> "buffer", stderr |-> "buffer"]

\* a release that is skipped when the block raises
redirect_exit_on_success(saved, exc) ==
    IF exc = "" THEN saved ELSE [stdout |-> "buffer", stderr |-> "buffer"]

\* __exit__ of the two redirections: the channels saved on entry are put
\* back, whether the block completed or raised exc
redirect_exit(saved, exc) == saved

\* what the call's buffers hold of text written while the channels are as given
captured(channels, out, err) ==
    [stdout |-> IF channels.stdout = "buffer" THEN out ELSE "",
     stderr |-> IF channels.stderr = "buffer" THEN err ELSE ""]

\* what reaches the real channels of text written while they are as given
written(channels, out, err) ==
    [stdout |-> IF channels.stdout = "original" THEN out ELSE "",
     stderr |-> IF channels.stderr = "original" THEN err ELSE ""]

Init ==
    /\ global_namespace = SeedNamespace
    /\ request = [name |-> "", arguments |-> <<>>]
    /\ response = NoResponse
    /\ steps = <<>>
    /\ commands = <<>>
    /\ terminal = Quiet
    /\ streams = Original

(* ------------------------- execute_python ------------------------------ *)
\* what a call leaves behind
Finish(ns, resp, st, cmds, term) ==
    /\ global_namespace' = ns
    /\ response' = resp
    /\ steps' = st
    /\ commands' = cmds
    /\ terminal' = term

\* a classifier without the DataFrame case
Classify_generic(output, errors, last_value) ==
    JsonContent(result_doc(output, errors, last_value))

\* lines 111-143: classify the value of the trailing expression
Classify(output, errors, last_value) ==
    IF last_value.t = "DataFrame" THEN JsonContent(df_json(last_value))
    ELSE JsonContent(result_doc(output, errors, last_value))

\* lines 145-152: an Exception becomes an error document, anything else
\* leaves the handler
Except(cls) ==
    IF IsException(cls)
    THEN JsonContent(error_doc("Error executing code:\n" \o format_exc(cls)))
    ELSE Raised(cls, "")

\* a reset that re-seeds without clearing
reset_without_clear(ns) == Bind(Bind(ns, "__builtins__", builtins), "pd", pd)

\* lines 91-93: clear the namespace, then bind the two seed names again
reset_namespace(ns) == Bind(Bind(clear(ns), "__builtins__", builtins), "pd", pd)

\* the code check skipped for a reset request
missing_code_unless_reset(arguments) ==
    Get(arguments, "code", <<>>) = <<>> /\ ~Get(arguments, "reset", FALSE)

\* lines 86-87: "not code", for an absent, None or empty code
missing_code(arguments) == Get(arguments, "code", <<>>) = <<>>

execute_python(arguments) ==
    LET code == Get(arguments, "code", <<>>)
        run == exec(code, global_namespace)
        ev == eval(last_line(code), run.ns)
        buffers == captured(redirect_enter(streams), run.out, run.err)
        released == redirect_exit(streams, run.exc)
    IN
    /\ request' = [name |-> "execute_python", arguments |-> arguments]
    /\ IF DOMAIN arguments = {}
       THEN Finish(global_namespace, Raised("ValueError", "Missing arguments"),
                   <<>>, <<>>, Quiet)
       ELSE IF missing_code(arguments)
       THEN Finish(global_namespace, Raised("ValueError", "Missing code parameter"),
                   <<>>, <<>>, Quiet)
       ELSE IF Get(arguments, "reset", FALSE)
       THEN Finish(reset_namespace(global_namespace),
                   TextContent("Python session reset. All variables cleared."),
                   <<"clear">>, <<>>, Quiet)
       ELSE IF run.exc # ""
       THEN Finish(run.ns, Except(run.exc), <<"exec">>, <<>>, Quiet)
       ELSE IF ev.exc # ""
       THEN Finish(ev.ns, Except(ev.exc), <<"exec", "eval">>, <<>>,
                   written(released, ev.out, ev.err))
       ELSE Finish(ev.ns, Classify(buffers.stdout, buffers.stderr, ev.val),
                   <<"exec", "eval">>, <<>>,
                   written(released, ev.out, ev.err))
    /\ streams' = IF DOMAIN arguments = {} \/ missing_code(arguments)
                     \/ Get(arguments, "reset", FALSE)
                  THEN streams
                  ELSE released
    /\ WithinBounds(global_namespace')

ExecutePython == \E arguments \in ExecuteArguments : execute_python(arguments)

(* ------------------------- install_package ----------------------------- *)
Letters == {"a", "b", "c", "d", "e", "f", "g", "h", "i", "j", "k", "l", "m",
            "n", "o", "p", "q", "r", "s", "t", "u", "v", "w", "x", "y", "z",
            "A", "B", "C", "D", "E", "F", "G", "H", "I", "J", "K", "L", "M",
            "N", "O", "P", "Q", "R", "S", "T", "U", "V", "W", "X", "Y", "Z"}
DigitChars == {Digits[i] : i \in 1..10}

\* [A-Za-z0-9] and [A-Za-z0-9._-]
FirstClass == Letters \cup DigitChars
RestClass == Letters \cup DigitChars \cup {".", "_", "-"}

\* a pattern that accepts every non-empty string
re_match_any(package) == Len(package) >= 1

\* re.match("^[A-Za-z0-9][A-Za-z0-9._-]*$", package): "$" matches at the end
\* of the string and also just before a newline that ends the string
re_match(package) ==
    /\ Len(package) >= 1
    /\ package[1] \in FirstClass
    /\ \E end \in {Len(package)} \cup
                  (IF package[Len(package)] = "\n" THEN {Len(package) - 1} ELSE {}) :
          \A i \in 2..end : package[i] \in RestClass

\* the text spelled by a sequence of characters
RECURSIVE Text(_)
Text(chars) == IF chars = <<>> THEN "" ELSE chars[1] \o Text(Tail(chars))

\* s.split(sep)[0]: the characters before the first sep
RECURSIVE split_first(_, _)
split_first(chars, sep) ==
    IF chars = <<>> \/ chars[1] = sep THEN <<>>
    ELSE <<chars[1]>> \o split_first(Tail(chars), sep)

\* the statement text without the whitespace that ends it
RECURSIVE rstrip_chars(_)
rstrip_chars(chars) ==
    IF chars # <<>> /\ chars[Len(chars)] \in {"\n", " "}
    THEN rstrip_chars(SubSeq(chars, 1, Len(chars) - 1))
    ELSE chars

\* NAME of the Python grammar
IsIdentifier(chars) ==
    /\ chars # <<>>
    /\ chars[1] \in Letters \cup {"_"}
    /\ \A i \in 2..Len(chars) : chars[i] \in Letters \cup DigitChars \cup {"_"}

\* dotted_name of the Python grammar: NAME ('.' NAME)*
RECURSIVE IsDottedName(_)
IsDottedName(chars) ==
    LET head == split_first(chars, ".") IN
    /\ IsIdentifier(head)
    /\ \/ Len(head) = Len(chars)
       \/ IsDottedName(SubSeq(chars, Len(head) + 2, Len(chars)))

\* an import that binds nothing in the session namespace
exec_import_unbound(module, ns, imp) ==
    LET name == rstrip_chars(module) IN
    IF ~IsDottedName(name) THEN Outcome(ns, "", "", "SyntaxError", NoneV)
    ELSE IF imp # "ok" THEN Outcome(ns, "", "", imp, NoneV)
    ELSE Outcome(ns, "", "", "", NoneV)

\* exec(f"import {module}", ns): a SyntaxError unless module is a dotted
\* name; otherwise the import system decides (imp), and a successful import
\* binds the top-level package under its own name
exec_import(module, ns, imp) ==
    LET name == rstrip_chars(module) IN
    IF ~IsDottedName(name) THEN Outcome(ns, "", "", "SyntaxError", NoneV)
    ELSE IF imp # "ok" THEN Outcome(ns, "", "", imp, NoneV)
    ELSE Outcome(Bind(ns, Text(split_first(name, ".")),
                      ModuleV(Text(split_first(name, ".")))), "", "", "", NoneV)

\* how subprocess.run(argv, check=True) can end: exit status 0, a non-zero
\* exit status, or no process at all (uv is not installed)
RunOutcomes == {"ok", "CalledProcessError", "FileNotFoundError"}
\* how the import system can answer for a well-formed import statement
ImportOutcomes == {"ok", "ImportError"}

\* subprocess.run(["uv", "pip", "install", arg], ...), as logged in commands
Command(arg, outcome) ==
    [program |-> <<"uv", "pip", "install">>, arg |-> arg, outcome |-> outcome]

pip == <<"p", "i", "p">>

success_doc(msg) == [k \in {"success"} |-> msg]

Packages == {<<"a", "b", "c">>,
             <<"a", "b", "c", "\n">>,
             <<"a", ".", "b">>,
             <<"o", "k", "-", "p", "k", "g", ".", "1">>,
             <<"x", ";", " ", "r", "m", " ", "-", "r", "f">>,
             <<"a", "b", "c", "[", "x", "]">>,
             <<"-", "a">>}

\* argument mappings of install_package; <<>> is the empty string
InstallArguments ==
    {[k \in {} |-> <<>>]} \cup {[k \in {"package"} |-> p] : p \in Packages \cup {<<>>}}

\* a package check that lets every request through
missing_package_never(arguments) == FALSE

\* lines 155-156: "not package", for an absent, None or empty package
missing_package(arguments) == Get(arguments, "package", <<>>) = <<>>

install_package(arguments, boot, inst, imp) ==
    LET package == Get(arguments, "package", <<>>)
        bootstrap == Command(pip, boot)
        install == Command(package, inst)
        imported == exec_import(split_first(package, "["), global_namespace, imp)
    IN
    /\ request' = [name |-> "install_package", arguments |-> arguments]
    /\ UNCHANGED streams
    /\ IF DOMAIN arguments = {}
       THEN Finish(global_namespace, Raised("ValueError", "Missing arguments"),
                   <<>>, <<>>, Quiet)
       ELSE IF missing_package(arguments)
       THEN Finish(global_namespace, Raised("ValueError", "Missing package name"),
                   <<>>, <<>>, Quiet)
       ELSE IF boot = "CalledProcessError"
       THEN Finish(global_namespace,
                   JsonContent(error_doc("Failed to install pip: stderr")),
                   <<"bootstrap">>, <<bootstrap>>, Quiet)
       ELSE IF boot # "ok"
       THEN Finish(global_namespace, Raised(boot, ""),
                   <<"bootstrap">>, <<bootstrap>>, Quiet)
       ELSE IF ~re_match(package)
       THEN Finish(global_namespace,
                   JsonContent(error_doc("Invalid package name: " \o Text(package))),
                   <<"bootstrap", "validate">>, <<bootstrap>>, Quiet)
       ELSE IF inst = "CalledProcessError"
       THEN Finish(global_namespace,
                   JsonContent(error_doc("Failed to install package:\nstderr")),
                   <<"bootstrap", "validate", "install">>, <<bootstrap, install>>, Quiet)
       ELSE IF inst # "ok"
       THEN Finish(global_namespace, Raised(inst, ""),
                   <<"bootstrap", "validate", "install">>, <<bootstrap, install>>, Quiet)
       ELSE IF imported.exc = "ImportError"
       THEN Finish(imported.ns,
                   JsonContent(error_doc("Package installed but import failed: ImportError")),
                   <<"bootstrap", "validate", "install", "import">>,
                   <<bootstrap, install>>, Quiet)
       ELSE IF imported.exc # ""
       THEN Finish(imported.ns, Raised(imported.exc, ""),
                   <<"bootstrap", "validate", "install", "import">>,
                   <<bootstrap, install>>, Quiet)
       ELSE Finish(imported.ns,
                   JsonContent(success_doc("Successfully installed and imported "
                                           \o Text(package))),
                   <<"bootstrap", "validate", "install", "import">>,
                   <<bootstrap, install>>, Quiet)

\* a step that is not reached has no outcome to choose
InstallPackage ==
    \E arguments \in InstallArguments, boot \in RunOutcomes :
        \E inst \in (IF boot = "ok" THEN RunOutcomes ELSE {"ok"}) :
            \E imp \in (IF inst = "ok" THEN ImportOutcomes ELSE {"ok"}) :
                install_package(arguments, boot, inst, imp)

(* -------------------------- list_variables ----------------------------- *)
\* the spellings of the names a namespace can hold
NameSpellings ==
    {<<"x">>, <<"p", "d">>, <<"_", "t">>,
     <<"_", "_", "b", "u", "i", "l", "t", "i", "n", "s", "_", "_">>}
    \cup {split_first(rstrip_chars(q), ".") : q \in Packages}

\* the characters of a name
Chars(name) == CHOOSE c \in NameSpellings : Text(c) = name

\* k.startswith('_')
startswith_underscore(k) == Chars(k) # <<>> /\ Chars(k)[1] = "_"

\* a listing that hides the built-in slot only
vars_dict_all(ns) ==
    [k \in {n \in DOMAIN ns : n # "__builtins__"} |-> repr(ns[k])]

\* lines 222-225: the visible bindings, each with its repr
vars_dict(ns) ==
    [k \in {n \in DOMAIN ns : ~startswith_underscore(n) /\ n # "__builtins__"} |->
        repr(ns[k])]

variables_doc(ns) == [k \in {"variables"} |-> vars_dict(ns)]

\* list_variables declares no property; a client may still send a mapping
ListArguments == {[k \in {} |-> ""], [k \in {"verbose"} |-> ""]}

\* a listing that resets the session as it goes
list_variables_clearing(arguments) ==
    /\ request' = [name |-> "list_variables", arguments |-> arguments]
    /\ UNCHANGED streams
    /\ IF DOMAIN arguments = {}
       THEN Finish(global_namespace, Raised("ValueError", "Missing arguments"),
                   <<>>, <<>>, Quiet)
       ELSE Finish(reset_namespace(global_namespace),
                   JsonContent(variables_doc(global_namespace)),
                   <<"list">>, <<>>, Quiet)

list_variables(arguments) ==
    /\ request' = [name |-> "list_variables", arguments |-> arguments]
    /\ UNCHANGED streams
    /\ IF DOMAIN arguments = {}
       THEN Finish(global_namespace, Raised("ValueError", "Missing arguments"),
                   <<>>, <<>>, Quiet)
       ELSE Finish(global_namespace, JsonContent(variables_doc(global_namespace)),
                   <<"list">>, <<>>, Quiet)

ListVariables == \E arguments \in ListArguments : list_variables(arguments)

(* --------------------------- any other tool ---------------------------- *)
unknown_tool(name, arguments) ==
    /\ request' = [name |-> name, arguments |-> arguments]
    /\ UNCHANGED streams
    /\ IF DOMAIN arguments = {}
       THEN Finish(global_namespace, Raised("ValueError", "Missing arguments"),
                   <<>>, <<>>, Quiet)
       ELSE Finish(global_namespace, Raised("ValueError", "Unknown tool: " \o name),
                   <<>>, <<>>, Quiet)

UnknownTool == \E arguments \in ListArguments : unknown_tool("execute", arguments)

Next == ExecutePython \/ InstallPackage \/ ListVariables \/ UnknownTool

Spec == Init /\ [][Next]_vars

(* ======================================================================= *)
(*                              properties                                  *)
(* ======================================================================= *)
Tool == request.name
Code == Get(request.arguments, "code", <<>>)
ResetFlag == Get(request.arguments, "reset", FALSE)
Package == Get(request.arguments, "package", <<>>)
Returned == response.kind = "content"
Keys == DOMAIN response.doc
InSteps(s) == \E i \in 1..Len(steps) : steps[i] = s

\* the last call was execute_python with non-empty code and no reset
RunsCode == Tool = "execute_python" /\ Code # <<>> /\ ~ResetFlag
\* the last call was execute_python with reset=true and some code
ResetWithCode == Tool = "execute_python" /\ Code # <<>> /\ ResetFlag
\* the last call was install_package with a non-empty package string
Installs == Tool = "install_package" /\ Package # <<>>

ResetMessage == TextContent("Python session reset. All variables cleared.")
ErrorEnvelope(cls) == JsonContent(error_doc("Error executing code:\n" \o format_exc(cls)))

\* the names a call binds itself, or whose object its code changes in place
Rebound(req) ==
    LET code == Get(req.arguments, "code", <<>>)
        package == Get(req.arguments, "package", <<>>)
    IN
    {code[i].target : i \in {j \in 1..Len(code) : code[j].k = "assign"}}
    \cup {code[i].e.id : i \in {j \in 1..Len(code) :
                                  code[j].k = "expr" /\ code[j].e.op = "append"}}
    \cup (IF req.name = "install_package" /\ package # <<>>
          THEN {Text(split_first(rstrip_chars(split_first(package, "[")), "."))}
          ELSE {})

\* letters, digits, dot, underscore and hyphen only, the first alphanumeric
StrictlyAllowed(p) ==
    /\ p # <<>>
    /\ p[1] \in FirstClass
    /\ \A i \in 1..Len(p) : p[i] \in RestClass

\* the strings the pattern rejects: the first character is not alphanumeric,
\* or a character other than a final newline is outside the class
NotAllowed(p) ==
    \/ p[1] \notin FirstClass
    \/ \E i \in 2..Len(p) : p[i] \notin RestClass /\ ~(i = Len(p) /\ p[i] = "\n")

\* name[extra] with an allow-listed name
HasExtras(p) ==
    /\ Len(p) >= 4
    /\ p[Len(p)] = "]"
    /\ StrictlyAllowed(split_first(p, "["))
    /\ Len(split_first(p, "[")) < Len(p) - 2

(* C1: bindings persist.  A call whose code compiles and runs `x = 5` leaves
   x bound to 5, even though its response is an error; no call other than a reset request
   removes a binding or changes one it neither rebinds nor mutates itself; and a call
   `x + 1` made while x holds an int n returns the envelope {result: repr(n+1)},
   so `x = 5` followed by `x + 1` yields "6". *)
C1_BindingPersistence ==
    /\ [](RunsCode /\ Code[1] = Assign("x", Lit(IntV(5)))
          /\ (\A i \in 2..Len(Code) : Code[i].k \notin {"assign", "bad"})
          => "x" \in DOMAIN global_namespace /\ global_namespace["x"] = IntV(5))
    /\ [][~(Tool' = "execute_python" /\ ResetFlag')
          => \A k \in DOMAIN global_namespace :
                /\ k \in DOMAIN global_namespace'
                /\ k \notin Rebound(request') => global_namespace'[k] = global_namespace[k]]_vars
    /\ [][("x" \in DOMAIN global_namespace /\ global_namespace["x"].t = "int"
           /\ RunsCode' /\ Code' = <<ExprLine(AddOne("x"))>>)
          => /\ Returned' /\ response'.json
             /\ Keys' = {"result"}
             /\ response'.doc["result"] = JsonStr(IntRepr(global_namespace["x"].n + 1))]_vars

\* x + 1 answered with "6"
C1_Witness ==
    /\ RunsCode /\ Code = <<ExprLine(AddOne("x"))>>
    /\ Returned /\ "result" \in Keys
    /\ response.doc["result"] = JsonStr("6")
    /\ global_namespace["x"] = IntV(5)

(* C2: after an execute_python call with reset=true that carries code, the
   namespace is exactly the seed namespace, the response is the confirmation
   message and the submitted code was not run; the next call that references
   x gets an undefined-name error and the next call that uses pd gets its
   table. *)
C2_ResetSemantics ==
    /\ [](ResetWithCode => /\ global_namespace = SeedNamespace
                           /\ response = ResetMessage
                           /\ steps = <<"clear">>)
    /\ [][ResetWithCode /\ RunsCode' /\ Code' = <<ExprLine(Name("x"))>>
          => response' = ErrorEnvelope("NameError")]_vars
    /\ [][ResetWithCode /\ RunsCode'
          /\ (\E t \in Tables : Code' = <<ExprLine(DataFrameCtor(t))>>)
          => Returned' /\ response'.json /\ "type" \in Keys']_vars

\* a reset request whose code `x = 5` was not run
C2_Witness ==
    /\ ResetWithCode /\ Code = <<Assign("x", Lit(IntV(5)))>>
    /\ Returned
    /\ "x" \notin DOMAIN global_namespace

(* C3: every execute_python call with non-empty code and reset=false returns
   a normal response, and a failure gives the envelope with the single key
   error; nothing is raised to the transport layer. *)
C3_FailuresAreData ==
    RunsCode => /\ Returned
                /\ response.json
                /\ "error" \in Keys => Keys = {"error"}

(* C4 as claimed: every execute_python request with reset=true re-seeds the
   namespace and returns the confirmation, with or without code. *)
C4_ResetBeforeCodeCheck ==
    (Tool = "execute_python" /\ ResetFlag)
    => global_namespace = SeedNamespace /\ response = ResetMessage

(* C4 amended: the code check comes first.  A request with reset=true and
   non-empty code re-seeds the namespace and returns the confirmation; a
   request without code, with reset=true or not, raises the missing-code
   failure, performs no step and leaves the namespace as it was. *)
C4_CodeCheckBeforeReset ==
    /\ [](ResetWithCode => global_namespace = SeedNamespace /\ response = ResetMessage)
    /\ [](Tool = "execute_python" /\ DOMAIN request.arguments # {} /\ Code = <<>>
          => response = Raised("ValueError", "Missing code parameter") /\ steps = <<>>)
    /\ [][Tool' = "execute_python" /\ Code' = <<>>
          => global_namespace' = global_namespace]_vars

\* a reset request without code, refused while x stays bound
C4_Witness ==
    /\ Tool = "execute_python" /\ ResetFlag /\ Code = <<>>
    /\ response.kind = "raised"
    /\ "x" \in DOMAIN global_namespace

(* C5: whenever the statement run of an execute_python call completes and
   has written a text T to standard output, the envelope carries T under output, and it has no
   result key unless the code ends in an expression. *)
C5_OutputCapture ==
    [][RunsCode' =>
        LET run == exec(Code', global_namespace) IN
        (run.exc = "" /\ run.out # "") =>
            /\ Returned' /\ response'.json
            /\ "output" \in Keys'
            /\ response'.doc["output"] = run.out
            /\ last_line(Code').k # "expr" => "result" \notin Keys']_vars

(* C6: when the trailing expression of an execute_python call evaluates to
   a table with R rows and C columns, the document is exactly
   {type: "dataframe", data, columns, shape}: shape is [R, C], columns is the
   table's column order, data holds R mappings from column name to cell; no
   output, errors or result key, whatever the run wrote. *)
C6_TabularClassification ==
    [][RunsCode' =>
        LET run == exec(Code', global_namespace)
            ev == eval(last_line(Code'), run.ns)
            R == Len(ev.val.rows)
            C == Len(ev.val.columns)
        IN
        (run.exc = "" /\ ev.exc = "" /\ ev.val.t = "DataFrame") =>
            /\ Returned' /\ response'.json
            /\ Keys' = {"type", "data", "columns", "shape"}
            /\ response'.doc["type"] = "dataframe"
            /\ response'.doc["shape"] = <<R, C>>
            /\ response'.doc["columns"] = ev.val.columns
            /\ Len(response'.doc["data"]) = R
            /\ \A i \in 1..R :
                  /\ DOMAIN response'.doc["data"][i] = {ev.val.columns[j] : j \in 1..C}
                  /\ \A j \in 1..C :
                        response'.doc["data"][i][ev.val.columns[j]] = ev.val.rows[i][j]]_vars

\* a 2 x 2 table with columns b, a returned by a call that printed first
C6_Witness ==
    /\ RunsCode /\ Len(Code) = 2 /\ Code[1] = ExprLine(PrintCall(StrV("hi")))
    /\ Returned /\ Keys = {"type", "data", "columns", "shape"}
    /\ response.doc["shape"] = <<2, 2>>
    /\ response.doc["columns"] = <<"b", "a">>

(* C7 as claimed: a package string the pattern rejects is answered with an
   error envelope and no external command has been invoked. *)
C7_RejectedBeforeAnyCommand ==
    (Installs /\ NotAllowed(Package))
    => Returned /\ Keys = {"error"} /\ commands = <<>>

(* C7 amended: for a package string the pattern rejects, neither the install
   command nor the import is run; the only command invoked is the fixed
   bootstrap command, which runs before the validation, and when it succeeds
   the response is the "Invalid package name" envelope.  An allow-listed
   string such as ok-pkg.1 passes the validation: after a successful
   bootstrap the install command is run with it. *)
C7_RejectedBeforeInstall ==
    Installs =>
        /\ NotAllowed(Package) =>
              /\ ~InSteps("install") /\ ~InSteps("import")
              /\ \A i \in 1..Len(commands) : i = 1 /\ commands[i].arg = pip
              /\ (commands # <<>> /\ commands[1].outcome = "ok")
                 => response = JsonContent(error_doc("Invalid package name: "
                                                     \o Text(Package)))
        /\ (StrictlyAllowed(Package) /\ commands # <<>> /\ commands[1].outcome = "ok")
           => /\ InSteps("install")
              /\ Len(commands) = 2
              /\ commands[2].arg = Package

\* `x; rm -rf` rejected after the bootstrap command alone
C7_Witness ==
    /\ Installs
    /\ Package = <<"x", ";", " ", "r", "m", " ", "-", "r", "f">>
    /\ Returned /\ Keys = {"error"}
    /\ steps = <<"bootstrap", "validate">>
    /\ Len(commands) = 1

(* C8: the install command, and the import that follows it, are only ever
   run with a package string made of letters, digits, dot, underscore and
   hyphen whose first character is alphanumeric. *)
C8_AllowListSafety ==
    /\ \A i \in 2..Len(commands) : StrictlyAllowed(commands[i].arg)
    /\ InSteps("import") => StrictlyAllowed(Package)

(* C9: every install_package call with a non-empty package string returns a
   normal response whose document is {success} or {error}; no step's failure
   is raised. *)
C9_InstallNeverRaises ==
    Installs => /\ Returned
                /\ response.json
                /\ Keys \in {{"success"}, {"error"}}

(* C10: a request name[extra] with an allow-listed name reaches the install
   step after a successful bootstrap, the package manager is invoked with
   the exact string, and on success the base module is bound in the
   namespace. *)
C10_ExtrasSuffix ==
    (Installs /\ HasExtras(Package) /\ commands # <<>> /\ commands[1].outcome = "ok")
    => /\ InSteps("install")
       /\ Len(commands) = 2
       /\ commands[2].arg = Package
       /\ (Returned /\ Keys = {"success"})
          => Text(split_first(Package, "[")) \in DOMAIN global_namespace

\* the name an install request binds on success
ImportedName(req) ==
    Text(split_first(rstrip_chars(split_first(Get(req.arguments, "package", <<>>), "[")), "."))

HoldsModule(ns, name) == name \in DOMAIN ns /\ ns[name].t = "module"

(* C11: an install_package call that returns {success} binds the base module
   and changes nothing else; one that returns {error} or raises leaves the
   namespace as it was.  A bound module stays bound across every call that is
   not a reset request, a later execute_python call can use it, and a reset
   removes it. *)
C11_CapabilityInjection ==
    /\ [][Tool' = "install_package" =>
            IF Returned' /\ Keys' = {"success"}
            THEN /\ HoldsModule(global_namespace', ImportedName(request'))
                 /\ DOMAIN global_namespace' =
                        DOMAIN global_namespace \cup {ImportedName(request')}
                 /\ \A k \in DOMAIN global_namespace :
                        k # ImportedName(request')
                        => global_namespace'[k] = global_namespace[k]
            ELSE global_namespace' = global_namespace]_vars
    /\ [][(HoldsModule(global_namespace, "abc")
           /\ ~(Tool' = "execute_python" /\ ResetFlag'))
          => HoldsModule(global_namespace', "abc")]_vars
    /\ [][(HoldsModule(global_namespace, "abc")
           /\ RunsCode' /\ Code' = <<ExprLine(Name("abc"))>>)
          => /\ Returned' /\ Keys' = {"result"}
             /\ response'.doc["result"] = JsonStr("<module 'abc'>")]_vars
    /\ [](ResetWithCode => "abc" \notin DOMAIN global_namespace)

\* the installed module abc used by a later call
C11_Witness ==
    /\ RunsCode /\ Code = <<ExprLine(Name("abc"))>>
    /\ Returned /\ Keys = {"result"}
    /\ response.doc["result"] = JsonStr("<module 'abc'>")

(* C12: a list_variables call with an empty or absent argument mapping
   returns the {variables} document and raises nothing. *)
C12_ListWithoutArguments ==
    (Tool = "list_variables" /\ DOMAIN request.arguments = {})
    => Returned /\ response.json /\ Keys = {"variables"}

\* the names of the model that are reserved: they start with "_"
ReservedNames == {"__builtins__", "_t"}

(* C13: the document returned by list_variables holds exactly the bindings
   whose name is not reserved, each with the repr of its value: no name that
   starts with "_" is listed, and pd, x and the installed modules are. *)
C13_ListingVisibility ==
    (Tool = "list_variables" /\ Returned)
    => /\ response.json /\ Keys = {"variables"}
       /\ DOMAIN response.doc["variables"] = DOMAIN global_namespace \ ReservedNames
       /\ \A k \in DOMAIN response.doc["variables"] :
             response.doc["variables"][k] = repr(global_namespace[k])

\* a listing with pd, x and abc made while _t is bound
C13_Witness ==
    /\ Tool = "list_variables" /\ Returned
    /\ "_t" \in DOMAIN global_namespace
    /\ DOMAIN response.doc["variables"] = {"pd", "x", "abc"}

(* C14: list_variables leaves the namespace and the channels unchanged, and
   a list_variables call that follows another one with the same arguments
   returns the same response. *)
C14_ListingReadOnly ==
    /\ [][Tool' = "list_variables"
          => global_namespace' = global_namespace /\ streams' = streams]_vars
    /\ [][(Tool = "list_variables" /\ Tool' = "list_variables"
           /\ DOMAIN request'.arguments = DOMAIN request.arguments)
          => response' = response]_vars

\* a listing of a session that holds x as a list
C14_Witness ==
    /\ Tool = "list_variables" /\ Returned
    /\ "x" \in DOMAIN global_namespace
    /\ response.doc["variables"]["x"] = "[1, 2]"

\* the last call misses a required argument or names no tool of the server
ProtocolError ==
    \/ Tool = "execute_python" /\ Code = <<>>
    \/ Tool = "install_package" /\ Package = <<>>
    \/ Tool \notin {"", "execute_python", "install_package", "list_variables"}

(* C15: an execute_python call without code, an install_package call
   without package and a call to an unknown tool raise a ValueError; none of
   them performs a step, runs a command or writes anything, and the namespace
   stays as it was. *)
C15_ProtocolErrors ==
    /\ [](ProtocolError => /\ response.kind = "raised"
                           /\ response.exc = "ValueError"
                           /\ steps = <<>>
                           /\ commands = <<>>
                           /\ terminal = Quiet)
    /\ [][((Tool' = "execute_python" /\ Code' = <<>>)
           \/ (Tool' = "install_package" /\ Package' = <<>>)
           \/ Tool' \notin {"", "execute_python", "install_package", "list_variables"})
          => global_namespace' = global_namespace]_vars

\* install_package with an empty package string, refused while x is bound
C15_Witness ==
    /\ Tool = "install_package" /\ DOMAIN request.arguments = {"package"}
    /\ Package = <<>>
    /\ response = Raised("ValueError", "Missing package name")
    /\ "x" \in DOMAIN global_namespace

InstallOrder == <<"bootstrap", "validate", "install", "import">>

\* the message of the step that failed
FailureMessage(step, package) ==
    CASE step = "bootstrap" -> "Failed to install pip: stderr"
      [] step = "validate" -> "Invalid package name: " \o Text(package)
      [] step = "install" -> "Failed to install package:\nstderr"
      [] step = "import" -> "Package installed but import failed: ImportError"

(* C16: an install_package call performs bootstrap, validation, install and
   import in this order and stops at the first step that fails; it returns
   {success} after the four steps, or else the error message of the last step
   it performed. *)
C16_StepOrdering ==
    Installs =>
        /\ steps # <<>> /\ steps = SubSeq(InstallOrder, 1, Len(steps))
        /\ Returned /\ response.json
        /\ \/ Keys = {"success"} /\ steps = InstallOrder
           \/ /\ Keys = {"error"}
              /\ response.doc["error"] = FailureMessage(steps[Len(steps)], Package)

(* C17: after every execute_python call, whatever its outcome, sys.stdout and
   sys.stderr are the original channels. *)
C17_CaptureRelease ==
    Tool = "execute_python" => streams = Original

\* a call that left the handler with SystemExit, the channels restored
C17_Witness ==
    /\ RunsCode /\ steps = <<"exec">>
    /\ response.kind = "raised" /\ response.exc = "SystemExit"
    /\ streams = Original

(* C18: when an execute_python call succeeds with a final value that is not
   a table, the envelope has result (the items when the value is a list or a
   mapping, its repr otherwise), output exactly when the run wrote to stdout,
   errors exactly when it wrote to stderr, each with the captured text, and
   no other key. *)
C18_GenericEnvelope ==
    [][RunsCode' =>
        LET run == exec(Code', global_namespace)
            ev == eval(last_line(Code'), run.ns)
        IN
        (run.exc = "" /\ ev.exc = "" /\ ev.val.t # "DataFrame") =>
            /\ Returned' /\ response'.json
            /\ Keys' \subseteq {"output", "errors", "result"}
            /\ "result" \in Keys'
            /\ response'.doc["result"] =
                  IF ev.val.t \in {"list", "dict"} THEN JsonList(ev.val.items)
                  ELSE JsonStr(repr(ev.val))
            /\ "output" \in Keys' <=> run.out # ""
            /\ "output" \in Keys' => response'.doc["output"] = run.out
            /\ "errors" \in Keys' <=> run.err # ""
            /\ "errors" \in Keys' => response'.doc["errors"] = run.err]_vars

\* a list returned structured next to the captured output
C18_Witness ==
    /\ RunsCode /\ Returned /\ Keys = {"output", "result"}
    /\ response.doc["output"] = "hi\n"
    /\ response.doc["result"] = JsonList(<<1, 2>>)

(* C19: a call that returns an error envelope keeps what its statement run
   bound: `x = 5` followed by `1/0` leaves x = 5, a lone `_t = 5`, whose run
   succeeds and whose last line is no expression, returns a SyntaxError
   envelope and leaves _t = 5, and in general the namespace after an error
   envelope is the one the run, and the second evaluation if reached, left. *)
C19_NoRollback ==
    /\ [](RunsCode /\ Code = <<Assign("x", Lit(IntV(5))), ExprLine(DivZero)>>
          => /\ response = ErrorEnvelope("ZeroDivisionError")
             /\ "x" \in DOMAIN global_namespace /\ global_namespace["x"] = IntV(5))
    /\ [](RunsCode /\ Code = <<Assign("_t", Lit(IntV(5)))>>
          => /\ response = ErrorEnvelope("SyntaxError")
             /\ "_t" \in DOMAIN global_namespace /\ global_namespace["_t"] = IntV(5))
    /\ [][(RunsCode' /\ Returned' /\ Keys' = {"error"}) =>
            LET run == RunLines(Code', Outcome(global_namespace, "", "", "", NoneV)) IN
            /\ \A k \in DOMAIN global_namespace : k \in DOMAIN global_namespace'
            /\ (\A i \in 1..Len(Code') : Code'[i].k # "bad")
               => \A k \in DOMAIN run.ns :
                     /\ k \in DOMAIN global_namespace'
                     /\ global_namespace'[k] = run.ns[k]]_vars

\* x = 5 kept by the call that then divided by zero
C19_Witness ==
    /\ RunsCode /\ Code = <<Assign("x", Lit(IntV(5))), ExprLine(DivZero)>>
    /\ Returned /\ Keys = {"error"}
    /\ global_namespace["x"] = IntV(5)

(* C20 as claimed: whenever the statement run succeeds, the effects of the
   last line on the namespace are applied a second time. *)
C20_LastLineAlwaysTwice ==
    [][RunsCode' =>
        LET run == exec(Code', global_namespace) IN
        run.exc = "" => global_namespace' = RunLine(last_line(Code'), run).ns]_vars

(* C20 amended: whenever the statement run succeeds, eval is attempted on the
   last line after the capture is released.  A last line that is an
   expression is evaluated a second time: its effects on the namespace are
   applied twice, and what it writes the second time goes to the real
   channels, not under output or errors.  A last line that is no expression
   is not run again: its effects are applied once and the call returns a
   SyntaxError envelope. *)
C20_TrailingExpressionTwice ==
    /\ [][RunsCode' =>
            LET run == exec(Code', global_namespace)
                line == last_line(Code')
                again == RunLine(line, run)
            IN
            run.exc = "" =>
                /\ steps' = <<"exec", "eval">>
                /\ line.k = "expr" =>
                      /\ global_namespace' = again.ns
                      /\ terminal' = [stdout |-> EvalExpr(line.e, run.ns).out,
                                      stderr |-> EvalExpr(line.e, run.ns).err]
                      /\ (Returned' /\ "output" \in Keys')
                         => response'.doc["output"] = run.out
                      /\ (Returned' /\ "errors" \in Keys')
                         => response'.doc["errors"] = run.err
                /\ line.k # "expr" =>
                      /\ global_namespace' = run.ns
                      /\ terminal' = Quiet
                      /\ response' = ErrorEnvelope("SyntaxError")]_vars
    /\ [][("x" \in DOMAIN global_namespace /\ global_namespace["x"].t = "list"
           /\ RunsCode' /\ Code' = <<ExprLine(AppendOne("x"))>>)
          => global_namespace'["x"] =
                ListV(global_namespace["x"].items \o <<1, 1>>)]_vars
    /\ [](RunsCode /\ Code = <<ExprLine(PrintCall(StrV("hi")))>>
          => /\ response.doc["output"] = "hi\n"
             /\ terminal.stdout = "hi\n")

\* one call of x.append(1) that left two more items
C20_Witness ==
    /\ RunsCode /\ Code = <<ExprLine(AppendOne("x"))>>
    /\ Returned /\ Keys = {"result"}
    /\ global_namespace["x"] = ListV(<<1, 2, 1, 1>>)

====
